---- MODULE Spec2Model ----
(***************************************************************************)
(* Model of the Nomulus AppEngine rollback tool (release/rollback).        *)
(*                                                                         *)
(* Python values are modelled as follows.                                  *)
(*   - A VersionKey / VersionConfig object is a record with the fields     *)
(*     service_id, version_id, cls and manual_scaling_instances.  An       *)
(*     Optional[int] is a set with at most one member: {} is None.         *)
(*   - A (frozen)set of such objects is a TLA+ set of records in which no   *)
(*     two members are equal under VersionKey.__eq__ (KeyEq); which member  *)
(*     of two equal objects survives an operation follows CPython.          *)
(*   - The iteration order of a set or dict keyed by strings depends on    *)
(*     the per-process string hash seed: it is a nondeterministic choice.  *)
(***************************************************************************)
EXTENDS Integers, Sequences, FiniteSets, TLC

VARIABLES
    pc,                  \* position of the run in main()/rollback()
    file_content,        \* lines of nomulus.{env}.versions, each split at ','
    services_response,   \* services().list(): service id -> versions with traffic
    versions_response,   \* versions().list(): service id -> {[id, instances]}
    paged,               \* list calls whose response carries nextPageToken
    target_versions,     \* rollback(): target_versions
    serving_versions,    \* rollback(): serving_versions
    all_version_configs, \* rollback(): all_version_configs
    requested,           \* argument of the last get_version_configs call
    queried,             \* history: the gateway methods rollback() has called
    target_configs,      \* rollback(): target_configs
    serving_configs,     \* rollback(): serving_configs
    iter_first,          \* per service: the element next(iter(versions)) yields
    rollback_plan,       \* rollback(): rollback_plan (a tuple of _RollbackPlan)
    stdout,              \* what has been printed
    exception,           \* the exception in flight, {} when none
    exit_code,           \* the process exit status, {} while running
    target_release,      \* the release tag the versions are asked for
    version_map,         \* what _parse_version_map gave, {} before it is called
    list_result,         \* what a gateway call made on its own gave, {} before
    applied              \* history: the emitted plans were applied and the
                         \* plan is being computed again

vars == <<pc, file_content, services_response, versions_response, paged,
          target_versions, serving_versions, all_version_configs, requested,
          queried, target_configs, serving_configs, iter_first, rollback_plan, stdout,
          exception, exit_code, target_release, version_map, list_result,
          applied>>

\* what the gateways answer
platform == <<file_content, services_response, versions_response, paged>>

\* what rollback() has read from the gateways
reads == <<target_versions, serving_versions, all_version_configs, requested,
           queried>>

\* the argument and the results of the library calls made outside rollback()
calls == <<target_release, version_map, list_result>>

-----------------------------------------------------------------------------
(* Bounds of the model *)

\* most target configs handed to _generate_plan / most lines of the release
MaxTargets == 5
\* most serving configs handed to _generate_plan / most versions with traffic
MaxServing == 2
\* largest manual-scaling instance count
MaxInstances == 1

\* the version ids the release can have been deployed as: once, or by
\* mistake twice
TargetVersionIds == {"v1", "v2"}
\* the version ids that can carry traffic: a deployment of the release (v2)
\* and an older version (v3)
ServingVersionIds == {"v2", "v3"}
\* a service that is not under management
OtherService == "extra"
\* the release rollback() is asked for (--target_release)
TargetRelease == "r1"
\* another release recorded in the same file
OtherRelease == "r0"

-----------------------------------------------------------------------------
(* appengine.py *)

\* AppEngineAdmin.SERVICES
SERVICES == {"backend", "default", "pubapi", "tools"}

AllServices == SERVICES \cup {OtherService}

-----------------------------------------------------------------------------
(* common.py *)

\* Optional[int]: None is {}, n is {n}
None == {}

VersionKey(service_id, version_id) ==
    [service_id |-> service_id, version_id |-> version_id,
     cls |-> "VersionKey", manual_scaling_instances |-> None]

VersionConfig(service_id, version_id, manual_scaling_instances) ==
    [service_id |-> service_id, version_id |-> version_id,
     cls |-> "VersionConfig",
     manual_scaling_instances |-> manual_scaling_instances]

\* a slip: VersionConfig declared without eq=False, so that the dataclass
\* generates an __eq__ over the class and every field
EqByFields(self, other) == self = other

\* a slip: only objects of one class are equal (type(other) is type(self)
\* for isinstance(other, VersionKey))
EqSameClass(self, other) ==
    /\ self.cls = other.cls
    /\ self.service_id = other.service_id
    /\ self.version_id = other.version_id

\* VersionKey.__eq__, inherited by VersionConfig (eq=False)
KeyEq(self, other) ==
    /\ self.service_id = other.service_id
    /\ self.version_id = other.version_id

\* the dataclass-generated VersionKey.__hash__, inherited by VersionConfig
KeyHash(self) == <<self.service_id, self.version_id>>

\* VersionConfig.is_manual_scaling
is_manual_scaling(self) == self.manual_scaling_instances # None

-----------------------------------------------------------------------------
(* Python's set type over objects compared with KeyEq *)

\* x in s
PyContains(s, x) == \E e \in s : KeyHash(e) = KeyHash(x) /\ KeyEq(e, x)

\* frozenset(list): the first of several equal objects is kept
RECURSIVE PyFrozenset(_)
PyFrozenset(list) ==
    IF list = <<>> THEN {}
    ELSE LET rest == PyFrozenset(SubSeq(list, 1, Len(list) - 1))
             last == list[Len(list)]
         IN  IF PyContains(rest, last) THEN rest ELSE rest \cup {last}

\* self.intersection(other): CPython iterates over the smaller operand (over
\* `other` when the sizes are equal) and keeps the objects of that operand
PyIntersection(self, other) ==
    IF Cardinality(other) > Cardinality(self)
    THEN {e \in self : PyContains(other, e)}
    ELSE {e \in other : PyContains(self, e)}

\* a slip: the other operand is left out
UnionWithNothing(self, other) == self

\* self.union(other): a copy of self, then the objects of other not yet in it
PyUnion(self, other) == self \cup {e \in other : ~PyContains(self, e)}

\* the orders in which a collection of service ids can be iterated
Orders(S) ==
    {o \in [1..Cardinality(S) -> S] :
        \A i, j \in 1..Cardinality(S) : i # j => o[i] # o[j]}

\* the orders in which a dict keyed by the managed services can be iterated
ServiceOrders == Orders(SERVICES)

-----------------------------------------------------------------------------
(* Exceptions and printed lines *)

\* an exception object: its class and what its message names
Raise(type, about) == [type |-> type, about |-> about]

\* a printed line: what it says and what it names
Line(msg, about) == [msg |-> msg, about |-> about]

-----------------------------------------------------------------------------
(* nom_rollback.py: _RollbackPlan and _generate_plan *)

\* _RollbackPlan(target_version, serving_versions)
RollbackPlan(target, serving) ==
    [target_version |-> target, serving_versions |-> serving]

\* _RollbackPlan.__post_init__: the assertions pass
PostInitOk(self) ==
    \A config \in self.serving_versions :
        config.service_id = self.target_version.service_id

\* the loops that fill targets_by_service and serving_by_service:
\* setdefault(version.service_id, set()).add(version)
GroupByService(versions) ==
    [service_id \in {v.service_id : v \in versions} |->
        {v \in versions : v.service_id = service_id}]

\* targets_by_service.keys() != AppEngineAdmin.SERVICES
TargetsMismatch(keys) == keys # SERVICES

\* cannot_rollback: SERVICES.difference(targets_by_service.keys())
CannotRollback(keys) == SERVICES \ keys

\* a slip: every serving version, whatever its service
ServingOfAnyService(serving_by_service, service_id) ==
    UNION {serving_by_service[s] : s \in DOMAIN serving_by_service}

\* serving_by_service.get(service_id, set())
ServingOf(serving_by_service, service_id) ==
    IF service_id \in DOMAIN serving_by_service
    THEN serving_by_service[service_id]
    ELSE {}

\* a slip: every target version is serving (issubset for intersection)
AlreadyServingAll(versions, serving) ==
    \A v \in versions : PyContains(serving, v)

\* a slip: the objects are compared field by field, as a dataclass with the
\* generated __eq__ would be
AlreadyServingByFields(versions, serving) == versions \cap serving # {}

\* versions.intersection(serving_versions) is truthy
AlreadyServing(versions, serving) == PyIntersection(versions, serving) # {}

\* what next(iter(versions)) can yield for each of the services D: any member
RECURSIVE FirstsOver(_, _)
FirstsOver(D, targets_by_service) ==
    IF D = {}
    THEN {<<>>}
    ELSE LET s == CHOOSE x \in D : TRUE
         IN  {f @@ (s :> v) : f \in FirstsOver(D \ {s}, targets_by_service),
                              v \in targets_by_service[s]}

Firsts(targets_by_service) ==
    FirstsOver(DOMAIN targets_by_service, targets_by_service)

\* the loop over targets_by_service.items(), visited in `order` from item i on;
\* acc holds the plans appended, the lines printed and whether an assertion
\* of _RollbackPlan failed
RECURSIVE PlanLoop(_, _, _, _, _, _)
PlanLoop(order, i, first, targets_by_service, serving_by_service, acc) ==
    IF i > Len(order) \/ acc.failed
    THEN acc
    ELSE LET service_id == order[i]
             versions == targets_by_service[service_id]
             serving == ServingOf(serving_by_service, service_id)
             plan == RollbackPlan(first[service_id], serving)
         IN  IF AlreadyServing(versions, serving)
             THEN PlanLoop(order, i + 1, first, targets_by_service,
                           serving_by_service,
                           [acc EXCEPT !.out =
                               Append(@, Line("already_running", {service_id}))])
             ELSE IF PostInitOk(plan)
             THEN PlanLoop(order, i + 1, first, targets_by_service,
                           serving_by_service,
                           [acc EXCEPT !.plan = Append(@, plan)])
             ELSE [acc EXCEPT !.failed = TRUE]

\* _generate_plan(target_versions, serving_versions) when the dict of targets
\* is iterated in `order` and next(iter(...)) yields `first`
generate_plan(targets, serving, order, first) ==
    LET targets_by_service == GroupByService(targets)
        serving_by_service == GroupByService(serving)
        keys == DOMAIN targets_by_service
        loop == PlanLoop(order, 1, first, targets_by_service,
                         serving_by_service,
                         [plan |-> <<>>, out |-> <<>>, failed |-> FALSE])
    IN  IF TargetsMismatch(keys)
        THEN [raised |-> {Raise("ServiceStateError", CannotRollback(keys))},
              plan |-> <<>>, out |-> <<>>, first |-> first]
        ELSE IF loop.failed
        THEN [raised |-> {Raise("AssertionError", {})},
              plan |-> <<>>, out |-> loop.out, first |-> first]
        ELSE [raised |-> {}, plan |-> loop.plan, out |-> loop.out,
              first |-> first]

\* the iteration orders and first elements one call can meet
PlanChoices(targets) ==
    LET targets_by_service == GroupByService(targets)
    IN  IF TargetsMismatch(DOMAIN targets_by_service)
        THEN {<<<<>>, <<>>>>}
        ELSE ServiceOrders \X Firsts(targets_by_service)

\* every result _generate_plan can produce for these arguments, with the
\* first elements it met
PlanOutcomes(targets, serving) ==
    {generate_plan(targets, serving, c[1], c[2]) : c \in PlanChoices(targets)}

\* rollback(), line 150: rollback_plan = _generate_plan(...)
GeneratePlan ==
    /\ pc = "generate_plan"
    /\ \E r \in PlanOutcomes(target_configs, serving_configs) :
            /\ iter_first' = r.first
            /\ rollback_plan' = r.plan
            /\ stdout' = stdout \o r.out
            /\ exception' = r.raised
            /\ pc' = IF r.raised = {} THEN "print_plan" ELSE "except"
    /\ UNCHANGED <<platform, calls, reads, target_configs, serving_configs,
                   exit_code, applied>>

-----------------------------------------------------------------------------
(* _generate_plan on its own: the arguments are drawn from bounded sets *)

BoundedSubsets(S, n) == {x \in SUBSET S : Cardinality(x) <= n}

\* the versions a release file can name
TargetKeys == (SERVICES \X TargetVersionIds) \cup {<<OtherService, "v1">>}

\* the versions that can carry traffic: get_serving_versions keeps SERVICES only
ServingKeys == SERVICES \X ServingVersionIds

\* the instance count a version was deployed with: v2 is on manual scaling
DeployedInstances(version_id) ==
    IF version_id = "v2" THEN {MaxInstances} ELSE None

Configs(ks) == {VersionConfig(k[1], k[2], DeployedInstances(k[2])) : k \in ks}

Keys(ks) == {VersionKey(k[1], k[2]) : k \in ks}

\* the instance count of a version in a snapshot taken after a manual-scaling
\* version was resized by one instance
ResizedInstances(version_id) ==
    {n + 1 : n \in DeployedInstances(version_id)}

Resized(ks) == {VersionConfig(k[1], k[2], ResizedInstances(k[2])) : k \in ks}

\* what _ensure_versions_available can hand over for at most n versions among
\* keys: their configs, or (when it iterated over the requested keys) the
\* bare keys
ObjectSets(keys, n) ==
    {Configs(ks) : ks \in BoundedSubsets(keys, n)}
    \cup {Keys(ks) : ks \in BoundedSubsets(keys, n)}

\* the serving versions of the one service whose versions were resized
ResizedKeys == {"default"} \X ServingVersionIds

\* the configs of at most n versions among keys in a later snapshot
ResizedSets(keys, n) == {Resized(ks) : ks \in BoundedSubsets(keys, n)}

\* the serving versions of a system that runs exactly the targets
ConvergedOn(targets) ==
    LET ks == {<<v.service_id, v.version_id>> :
                  v \in {t \in targets : t.service_id \in SERVICES}}
    IN  {Configs(ks), Keys(ks), Resized(ks)}

InitPlan ==
    /\ pc = "generate_plan"
    /\ file_content = <<>>
    /\ services_response = <<>>
    /\ versions_response = <<>>
    /\ paged = {}
    /\ target_versions = {}
    /\ serving_versions = {}
    /\ all_version_configs = {}
    /\ requested = {}
    /\ queried = <<>>
    /\ target_configs \in ObjectSets(TargetKeys, MaxTargets)
    /\ serving_configs \in ObjectSets(ServingKeys, MaxServing)
                              \cup ResizedSets(ResizedKeys, MaxServing)
                              \cup ConvergedOn(target_configs)
    /\ iter_first = <<>>
    /\ rollback_plan = <<>>
    /\ stdout = <<>>
    /\ exception = {}
    /\ exit_code = {}
    /\ target_release = TargetRelease
    /\ version_map = None
    /\ list_result = None
    /\ applied = FALSE

NextPlan == GeneratePlan

SpecPlan == InitPlan /\ [][NextPlan]_vars

-----------------------------------------------------------------------------
(* _generate_plan run again once its plans have been applied *)

\* the serving versions once every plan has been applied: each target is
\* activated and the versions that were serving in its place are deactivated
AppliedServing(serving, plans) ==
    LET stopped == UNION {plans[i].serving_versions : i \in DOMAIN plans}
        started == {plans[i].target_version : i \in DOMAIN plans}
    IN  {v \in serving : ~PyContains(stopped, v)} \cup started

\* the returned plans are applied and rollback is started afresh
ApplyPlan ==
    /\ pc = "print_plan"
    /\ ~applied
    /\ serving_configs' = AppliedServing(serving_configs, rollback_plan)
    /\ applied' = TRUE
    /\ pc' = "generate_plan"
    /\ iter_first' = <<>>
    /\ rollback_plan' = <<>>
    /\ stdout' = <<>>
    /\ UNCHANGED <<platform, calls, reads, target_configs, exception, exit_code>>

NextReplan == GeneratePlan \/ ApplyPlan

SpecReplan == InitPlan /\ [][NextReplan]_vars

-----------------------------------------------------------------------------
(* gcs.py: GcsClient.get_versions_by_release *)

\* a slip: the tag of the line is not compared
VersionsOfAnyTag(lines, nom_tag) ==
    [i \in DOMAIN lines |-> VersionKey(lines[i][2], lines[i][3])]

\* the VersionKey of every line whose tag is nom_tag, in file order; a line
\* is the list that line.split(',') yields
RECURSIVE MatchingVersions(_, _)
MatchingVersions(lines, nom_tag) ==
    IF lines = <<>>
    THEN <<>>
    ELSE LET line == Head(lines)
         IN  IF nom_tag = line[1]
             THEN <<VersionKey(line[2], line[3])>>
                      \o MatchingVersions(Tail(lines), nom_tag)
             ELSE MatchingVersions(Tail(lines), nom_tag)

\* get_versions_by_release(env, nom_tag) on the downloaded lines: unpacking a
\* line that has not exactly three fields raises ValueError
get_versions_by_release(lines, nom_tag) ==
    IF \E i \in DOMAIN lines : Len(lines[i]) # 3
    THEN [raised |-> {Raise("ValueError", {})}, value |-> {}]
    ELSE [raised |-> {},
          value |-> PyFrozenset(MatchingVersions(lines, nom_tag))]

-----------------------------------------------------------------------------
(* nom/version_utils.py: _parse_version_map *)

\* ServiceVersions(service, appengine_versions, nom_tag); __post_init__ turns
\* the set of versions into a frozenset
ServiceVersions(service, appengine_versions, nom_tag) ==
    [service |-> service, appengine_versions |-> appengine_versions,
     nom_tag |-> {nom_tag}]

\* the keys of version_map in the order of their insertion: the services of
\* the lines whose tag is nom_tag, each where it is first met
RECURSIVE InsertionOrder(_, _)
InsertionOrder(lines, nom_tag) ==
    IF lines = <<>>
    THEN <<>>
    ELSE LET rest == InsertionOrder(SubSeq(lines, 1, Len(lines) - 1), nom_tag)
             line == lines[Len(lines)]
         IN  IF nom_tag = line[1] /\ \A i \in DOMAIN rest : rest[i] # line[2]
             THEN Append(rest, line[2])
             ELSE rest

\* version_map[service] after the loop: setdefault(service, set()).add(...)
VersionsAdded(lines, nom_tag, service) ==
    {lines[i][3] : i \in {j \in DOMAIN lines :
                            nom_tag = lines[j][1] /\ lines[j][2] = service}}

\* _parse_version_map(mappings_text, nom_tag) on the lines of the text:
\* unpacking a line that has not exactly three fields raises ValueError
parse_version_map(lines, nom_tag) ==
    IF \E i \in DOMAIN lines : Len(lines[i]) # 3
    THEN [raised |-> {Raise("ValueError", {})}, value |-> <<>>]
    ELSE LET order == InsertionOrder(lines, nom_tag)
         IN  [raised |-> {},
              value |-> [i \in DOMAIN order |->
                  ServiceVersions(order[i],
                                  VersionsAdded(lines, nom_tag, order[i]),
                                  nom_tag)]]

\* get_version_map(), line 83: return _parse_version_map(file_content, nom_tag)
ParseVersionMap ==
    /\ version_map = None
    /\ version_map' = {parse_version_map(file_content, target_release)}
    /\ UNCHANGED <<pc, platform, reads, target_release, list_result,
                   target_configs, serving_configs, iter_first, rollback_plan,
                   stdout, exception, exit_code, applied>>

-----------------------------------------------------------------------------
(* appengine.py: AppEngineAdmin *)

\* a slip: the response is not looked at for a page token
NeverPaged(call, paged_calls) == FALSE

\* _checked_request: 'nextPageToken' in response; a list call is named by
\* "services", or by the service whose versions it lists
IsPaged(call, paged_calls) == call \in paged_calls

\* get_serving_versions(): the versions with traffic of the managed services
\* in the response of services().list()
get_serving_versions(response, paged_calls) ==
    IF IsPaged("services", paged_calls)
    THEN [raised |-> {Raise("PagingError", {"services"})}, value |-> {}]
    ELSE [raised |-> {},
          value |-> UNION {{VersionKey(service, version) :
                               version \in response[service]} :
                           service \in DOMAIN response \cap SERVICES}]

\* get_version_configs(versions): requested_services
RequestedServices(versions) == {version.service_id : version \in versions}

\* the manualScaling object of a version resource: none ({}, the key is
\* absent) for a version without manual instances; an object that is not
\* `counted` lacks its 'instances' field (None)
ManualScalingOf(instances, counted) ==
    IF instances = None
    THEN {}
    ELSE {[instances |-> IF counted THEN instances ELSE None]}

\* a version resource, as versions().list() and versions().get() answer it:
\* its id, its manualScaling object and the other scaling keys it carries
VersionResource(id, manualScaling, others) ==
    [id |-> id, manualScaling |-> manualScaling, others |-> others]

\* version.get('manualScaling', {}).get('instances')
ManualInstances(version) ==
    UNION {scaling.instances : scaling \in version.manualScaling}

\* a slip: the listed versions are not compared with the requested ones
ConfigsOfAllListed(service_id, listed, versions) ==
    {VersionConfig(service_id, version.id, ManualInstances(version)) :
        version \in listed}

\* the configs appended for one service: the listed versions that are in
\* `versions`, with manualScaling.instances where the platform reports it
ConfigsOfService(service_id, listed, versions) ==
    {VersionConfig(service_id, version.id, ManualInstances(version)) :
        version \in {l \in listed :
                        PyContains(versions, VersionKey(service_id, l.id))}}

\* get_version_configs(versions): the requested services are listed in the
\* order the set yields them.  The first paged list call met raises and is
\* named; any of the other services can have been listed before it.  With no
\* paged call every service is listed.  `listed` holds the list calls made.
get_version_configs(versions, listing, paged_calls) ==
    LET requested_services == RequestedServices(versions)
        paged_services ==
            {s \in requested_services : IsPaged(s, paged_calls)}
    IN  IF paged_services # {}
        THEN {[raised |-> {Raise("PagingError", {s})}, value |-> {},
               listed |-> before \cup {s}] :
                 s \in paged_services,
                 before \in SUBSET (requested_services \ paged_services)}
        ELSE {[raised |-> {},
               value |-> UNION {ConfigsOfService(s, listing[s], versions) :
                                   s \in requested_services},
               listed |-> requested_services]}

-----------------------------------------------------------------------------
(* nom/version_utils.py and appengine_admin.py: the list calls of the earlier
   wrappers of the Admin API *)

\* version_utils.AppEngineAdmin._checked_list(action): the response of the
\* list call, unless it carries nextPageToken
checked_list(call, response, paged_calls) ==
    IF IsPaged(call, paged_calls)
    THEN [raised |-> {Raise("PagingError", {call})}, value |-> {},
          listed |-> {call}]
    ELSE [raised |-> {}, value |-> response, listed |-> {call}]

\* appengine_admin.AppEngineAdmin._fetch_services()
fetch_services(response, paged_calls) ==
    IF IsPaged("services", paged_calls)
    THEN [raised |-> {Raise("PagingError", {"_fetch_services"})},
          value |-> {}, listed |-> {"services"}]
    ELSE [raised |-> {}, value |-> response, listed |-> {"services"}]

\* appengine_admin.AppEngineAdmin.SERVICES, a tuple
AdminServices == <<"default", "pubapi", "backend", "tools">>

\* appengine_admin.AppEngineAdmin.get_available_versions(): the versions of
\* the services are listed in the order of the tuple, up to the first paged
\* response
get_available_versions(listing, paged_calls) ==
    LET paged_at == {i \in DOMAIN AdminServices :
                        IsPaged(AdminServices[i], paged_calls)}
        first == CHOOSE i \in paged_at : \A j \in paged_at : i <= j
    IN  IF paged_at # {}
        THEN [raised |-> {Raise("PagingError", {"_fetch_services"})},
              value |-> {},
              listed |-> {AdminServices[j] : j \in 1..first}]
        ELSE [raised |-> {},
              value |-> [services_id \in {AdminServices[i] :
                                             i \in DOMAIN AdminServices} |->
                            {version.id : version \in listing[services_id]}],
              listed |-> {AdminServices[i] : i \in DOMAIN AdminServices}]

\* appengine_admin.AppEngineAdmin.__init__(project): prints a line and builds
\* the client; no request is executed
admin_init ==
    [raised |-> {}, value |-> "AppEngineAdmin", listed |-> {},
     out |-> <<Line("admin_client_called", {})>>]

\* appengine_admin.AppEngineAdmin.get_service_version_instance_count(
\* service_id, version): prints a line, then builds the list request without
\* versionsId and never executes it; the client refuses the request for its
\* missing parameter or, if it does not, `in` is applied to the request
\* object, which is no container: the call raises TypeError, no list call is
\* made and no response is looked at
get_service_version_instance_count(service_id, version) ==
    [raised |-> {Raise("TypeError", {})}, value |-> {}, listed |-> {},
     out |-> <<Line("getting_instance_count", {<<service_id, version>>})>>]

\* appengine_admin.AppEngineAdmin.SCALINGS
SCALINGS == {"automaticScaling", "basicScaling", "manualScaling"}

\* response.keys() of a version resource
ResponseKeys(response) ==
    {"id"} \cup response.others
           \cup (IF response.manualScaling # {} THEN {"manualScaling"} ELSE {})

\* the scaling keys of a version resource:
\* SCALINGS.intersection(response.keys())
ScalingsOf(response) == SCALINGS \cap ResponseKeys(response)

\* appengine_admin.AppEngineAdmin.is_version_manual_scaling(service_id,
\* versiond_id): executes versions().get, which fails for a version the
\* platform does not have; `got` holds the get requests executed
is_version_manual_scaling(service_id, versiond_id, listing) ==
    LET found == {version \in listing[service_id] : version.id = versiond_id}
        response == CHOOSE version \in found : TRUE
        scaling == ScalingsOf(response)
        got == {<<service_id, versiond_id>>}
    IN  IF found = {}
        THEN [raised |-> {Raise("HttpError", got)}, value |-> {},
              listed |-> {}, got |-> got, out |-> <<>>]
        ELSE IF Cardinality(scaling) # 1
        THEN [raised |-> {Raise("ScalingError", scaling)}, value |-> {},
              listed |-> {}, got |-> got, out |-> <<>>]
        ELSE [raised |-> {}, value |-> "manualScaling" \in scaling,
              listed |-> {}, got |-> got,
              out |-> <<Line("has_scaling",
                             {<<service_id, versiond_id, scaling>>})>>]

\* the orders in which get_service_instance_count can meet the versions of
\* its argument, a dict of service id to version ids: the versions of one
\* service follow each other
WorkOrders(versions) ==
    {o \in Orders({<<v.service_id, v.version_id>> : v \in versions}) :
        \A i, j, k \in DOMAIN o :
            (i < j /\ j < k /\ o[i][1] = o[k][1]) => o[j][1] = o[i][1]}

\* the comprehensions of get_service_instance_count from version i of `work`
\* on: is_version_manual_scaling is asked first, and the instances of a
\* manual-scaling version are counted and added to the sum of its service
RECURSIVE CountLoop(_, _, _, _)
CountLoop(work, i, listing, acc) ==
    IF i > Len(work) \/ acc.raised # {}
    THEN acc
    ELSE LET service == work[i][1]
             version == work[i][2]
             manual == is_version_manual_scaling(service, version, listing)
             count == get_service_version_instance_count(service, version)
             asked == [acc EXCEPT !.out = @ \o manual.out,
                                  !.got = @ \cup manual.got,
                                  !.raised = manual.raised]
         IN  IF manual.raised # {} \/ ~manual.value
             THEN CountLoop(work, i + 1, listing, asked)
             ELSE CountLoop(work, i + 1, listing,
                      [asked EXCEPT
                          !.out = @ \o count.out,
                          !.listed = @ \cup count.listed,
                          !.raised = count.raised,
                          !.value = IF count.raised # {}
                                    THEN @
                                    ELSE [@ EXCEPT ![service] =
                                             @ + count.value]])

\* appengine_admin.AppEngineAdmin.get_service_instance_count(versions), the
\* versions met in the order `work`: prints a line, then sums for each service
\* the instances of its manual-scaling versions
get_service_instance_count(work, listing) ==
    LET services == {work[i][1] : i \in DOMAIN work}
        loop == CountLoop(work, 1, listing,
                    [raised |-> {}, value |-> [service \in services |-> 0],
                     listed |-> {}, got |-> {},
                     out |-> <<Line("getting_per_service_counts", {})>>])
    IN  IF loop.raised # {} THEN [loop EXCEPT !.value = {}] ELSE loop

\* what a gateway call made on its own leaves: its name, the exception that
\* left it, what it returned ({} when it raised), the list requests and the
\* get requests it executed
ListResult(call, r) ==
    [call |-> call, raised |-> r.raised,
     returned |-> IF r.raised = {} THEN {r.value} ELSE {},
     listed |-> r.listed,
     got |-> IF "got" \in DOMAIN r THEN r.got ELSE {}]

\* the effect of a gateway call made on its own: its result, and the lines
\* it printed
Called(call, r) ==
    /\ list_result' = {ListResult(call, r)}
    /\ stdout' = stdout \o (IF "out" \in DOMAIN r THEN r.out ELSE <<>>)
    /\ UNCHANGED <<pc, platform, reads, target_release, version_map,
                   target_configs, serving_configs, iter_first, rollback_plan,
                   exception, exit_code, applied>>

\* appengine.AppEngineAdmin.get_serving_versions()
CallGetServingVersions ==
    /\ list_result = None
    /\ LET r == get_serving_versions(services_response, paged)
       IN  Called("get_serving_versions",
                  [raised |-> r.raised, value |-> r.value,
                   listed |-> {"services"}])

\* appengine.AppEngineAdmin.get_version_configs(requested)
CallGetVersionConfigs ==
    /\ list_result = None
    /\ \E r \in get_version_configs(requested, versions_response, paged) :
           Called("get_version_configs", r)

\* version_utils.AppEngineAdmin._checked_list(versions().list(service))
CallCheckedList ==
    /\ list_result = None
    /\ \E service \in AllServices :
           Called("_checked_list",
                  checked_list(service, versions_response[service], paged))

\* appengine_admin.AppEngineAdmin._fetch_services()
CallFetchServices ==
    /\ list_result = None
    /\ Called("_fetch_services", fetch_services(services_response, paged))

\* appengine_admin.AppEngineAdmin.get_available_versions()
CallGetAvailableVersions ==
    /\ list_result = None
    /\ Called("get_available_versions",
              get_available_versions(versions_response, paged))

\* appengine_admin.AppEngineAdmin.get_service_version_instance_count(...)
CallGetServiceVersionInstanceCount ==
    /\ list_result = None
    /\ \E v \in requested :
           Called("get_service_version_instance_count",
                  get_service_version_instance_count(v.service_id,
                                                     v.version_id))

\* appengine_admin.AppEngineAdmin.is_version_manual_scaling(...)
CallIsVersionManualScaling ==
    /\ list_result = None
    /\ \E v \in requested :
           Called("is_version_manual_scaling",
                  is_version_manual_scaling(v.service_id, v.version_id,
                                            versions_response))

\* appengine_admin.AppEngineAdmin.get_service_instance_count(versions)
CallGetServiceInstanceCount ==
    /\ list_result = None
    /\ \E work \in WorkOrders(requested) :
           Called("get_service_instance_count",
                  get_service_instance_count(work, versions_response))

\* appengine_admin.AppEngineAdmin(project)
CallAdminInit ==
    /\ list_result = None
    /\ Called("__init__", admin_init)

-----------------------------------------------------------------------------
(* nom_rollback.py: _ensure_versions_available, rollback, main *)

\* _ensure_versions_available(requested_versions, all_configs)
ensure_versions_available(requested_versions, all_configs) ==
    LET keys_with_configs == PyIntersection(requested_versions, all_configs)
    IN  PyIntersection(all_configs, keys_with_configs)

\* an exception leaves rollback() and main()
Propagate(raised) ==
    /\ exception' = raised
    /\ pc' = "except"

\* rollback(), line 137: target_versions = get_versions_by_release(...)
GetVersionsByRelease ==
    /\ pc = "rollback"
    /\ queried' = Append(queried, "get_versions_by_release")
    /\ LET r == get_versions_by_release(file_content, target_release)
       IN  IF r.raised # {}
           THEN Propagate(r.raised) /\ UNCHANGED target_versions
           ELSE /\ target_versions' = r.value
                /\ pc' = "get_serving_versions"
                /\ UNCHANGED exception
    /\ UNCHANGED <<platform, calls, serving_versions, all_version_configs, requested,
                   target_configs, serving_configs, iter_first, rollback_plan,
                   stdout, exit_code, applied>>

\* rollback(), line 140: serving_versions = get_serving_versions()
GetServingVersions ==
    /\ pc = "get_serving_versions"
    /\ queried' = Append(queried, "get_serving_versions")
    /\ LET r == get_serving_versions(services_response, paged)
       IN  IF r.raised # {}
           THEN Propagate(r.raised) /\ UNCHANGED serving_versions
           ELSE /\ serving_versions' = r.value
                /\ pc' = "get_version_configs"
                /\ UNCHANGED exception
    /\ UNCHANGED <<platform, calls, target_versions, all_version_configs, requested,
                   target_configs, serving_configs, iter_first, rollback_plan,
                   stdout, exit_code, applied>>

\* rollback(), lines 142-143: all_version_configs = get_version_configs(
\* target_versions.union(serving_versions))
GetVersionConfigs ==
    /\ pc = "get_version_configs"
    /\ queried' = Append(queried, "get_version_configs")
    /\ requested' = PyUnion(target_versions, serving_versions)
    /\ \E r \in get_version_configs(requested', versions_response, paged) :
           IF r.raised # {}
           THEN Propagate(r.raised) /\ UNCHANGED all_version_configs
           ELSE /\ all_version_configs' = r.value
                /\ pc' = "ensure_versions_available"
                /\ UNCHANGED exception
    /\ UNCHANGED <<platform, calls, target_versions, serving_versions,
                   target_configs, serving_configs, iter_first, rollback_plan,
                   stdout, exit_code, applied>>

\* rollback(), lines 145-148: the two calls of _ensure_versions_available
EnsureVersionsAvailable ==
    /\ pc = "ensure_versions_available"
    /\ target_configs' =
           ensure_versions_available(target_versions, all_version_configs)
    /\ serving_configs' =
           ensure_versions_available(serving_versions, all_version_configs)
    /\ pc' = "generate_plan"
    /\ UNCHANGED <<platform, calls, reads, iter_first, rollback_plan, stdout,
                   exception, exit_code, applied>>

\* rollback(), line 152: print(rollback_plan); rollback() returns
PrintPlan ==
    /\ pc = "print_plan"
    /\ stdout' = Append(stdout, Line("rollback_plan", {}))
    /\ pc' = "main_return"
    /\ UNCHANGED <<platform, calls, reads, target_configs, serving_configs,
                   iter_first, rollback_plan, exception, exit_code, applied>>

\* what main() returns once rollback() has returned (line 165)
MainResult == 1

\* main() returns and sys.exit(main()) ends the process (lines 165, 170)
MainReturn ==
    /\ pc = "main_return"
    /\ exit_code' = {MainResult}
    /\ pc' = "exited"
    /\ UNCHANGED <<platform, calls, reads, target_configs, serving_configs,
                   iter_first, rollback_plan, stdout, exception, applied>>

\* except Exception as ex: print(str(ex)); sys.exit(1) (lines 171-173)
HandleException ==
    /\ pc = "except"
    /\ \E ex \in exception : stdout' = Append(stdout, Line(ex.type, ex.about))
    /\ exit_code' = {1}
    /\ pc' = "exited"
    /\ UNCHANGED <<platform, calls, reads, target_configs, serving_configs,
                   iter_first, rollback_plan, exception, applied>>

-----------------------------------------------------------------------------
(* What a run can meet: the record file and the platform *)

\* the versions the record file can name for the target release, in the
\* order of its lines
ReleaseLines ==
    <<<<"backend", "v1">>, <<"default", "v1">>, <<"default", "v2">>,
      <<OtherService, "v1">>, <<"pubapi", "v1">>, <<"tools", "v1">>>>

\* the versions of the managed services that can carry traffic
TrafficKeys == (SERVICES \X {"v1"}) \cup {<<"default", "v3">>}

\* every version ever deployed
Catalog == (AllServices \X {"v1"}) \cup {<<"default", "v2">>, <<"default", "v3">>}

\* the list calls the run can make
ListCalls == {"services"} \cup AllServices

\* a record file: a line of another release, the lines of the target release
\* for the versions ks, and the first of these once more
RECURSIVE LinesOf(_, _)
LinesOf(keys, ks) ==
    IF keys = <<>>
    THEN <<>>
    ELSE IF Head(keys) \in ks
    THEN <<<<TargetRelease, Head(keys)[1], Head(keys)[2]>>>>
             \o LinesOf(Tail(keys), ks)
    ELSE LinesOf(Tail(keys), ks)

RecordFile(ks) ==
    LET lines == LinesOf(ReleaseLines, ks)
    IN  <<<<OtherRelease, "default", "v3">>>> \o lines
            \o (IF lines = <<>> THEN <<>> ELSE <<Head(lines)>>)

\* the response of services().list() when the versions ks carry traffic; the
\* unmanaged service is listed too
ServicesResponse(ks) ==
    [service \in AllServices |->
        IF service = OtherService
        THEN {"v1"}
        ELSE {k[2] : k \in {x \in ks : x[1] = service}}]

\* the version resources of the platform when the versions `deleted` are
\* gone: a version with manual instances carries manualScaling (with its
\* 'instances' field if `counted`) and the keys `with_manual`, any other
\* version the keys `unmanaged`
ScaledVersions(deleted, unmanaged, with_manual, counted) ==
    [service \in AllServices |->
        {VersionResource(k[2],
                         ManualScalingOf(DeployedInstances(k[2]), counted),
                         IF DeployedInstances(k[2]) = None
                         THEN unmanaged
                         ELSE with_manual) :
            k \in {x \in Catalog \ deleted : x[1] = service}}]

\* the responses of versions().list() when the versions `deleted` are gone
\* and every version that is not on manual scaling is on automatic scaling
VersionsResponse(deleted) ==
    ScaledVersions(deleted, {"automaticScaling"}, {}, TRUE)

\* at most one member of S
AtMostOne(S) == {{}} \cup {{x} : x \in S}

Init ==
    /\ pc = "rollback"
    /\ \E ks \in SUBSET {ReleaseLines[i] : i \in DOMAIN ReleaseLines} :
           file_content = RecordFile(ks)
    /\ \E ks \in SUBSET TrafficKeys : services_response = ServicesResponse(ks)
    /\ \E deleted \in AtMostOne(Catalog) :
           versions_response = VersionsResponse(deleted)
    /\ paged \in AtMostOne(ListCalls)
    /\ target_versions = {}
    /\ serving_versions = {}
    /\ all_version_configs = {}
    /\ requested = {}
    /\ queried = <<>>
    /\ target_configs = {}
    /\ serving_configs = {}
    /\ iter_first = <<>>
    /\ rollback_plan = <<>>
    /\ stdout = <<>>
    /\ exception = {}
    /\ exit_code = {}
    /\ target_release = TargetRelease
    /\ version_map = None
    /\ list_result = None
    /\ applied = FALSE

Next ==
    \/ GetVersionsByRelease
    \/ GetServingVersions
    \/ GetVersionConfigs
    \/ EnsureVersionsAvailable
    \/ GeneratePlan
    \/ PrintPlan
    \/ MainReturn
    \/ HandleException

Spec == Init /\ [][Next]_vars

-----------------------------------------------------------------------------
(* The parsers of the record file on their own: the file and the tag are drawn
   from bounded sets *)

\* most lines of a record file
MaxLines == 4

\* the tags, services and versions its lines can name
Tags == {TargetRelease, OtherRelease}
RecordedServices == {"default", "pubapi"}
RecordLines == Tags \X RecordedServices \X TargetVersionIds

\* lines that do not hold three fields: a blank line, and a line with a
\* fourth field
MalformedLines == {<<"">>, <<TargetRelease, "default", "v1", "v2">>}

RecordFiles ==
    UNION {[1..n -> RecordLines \cup MalformedLines] : n \in 0..MaxLines}

InitParse ==
    /\ pc = "rollback"
    /\ file_content \in RecordFiles
    /\ target_release \in Tags
    /\ services_response = <<>>
    /\ versions_response = <<>>
    /\ paged = {}
    /\ target_versions = {}
    /\ serving_versions = {}
    /\ all_version_configs = {}
    /\ requested = {}
    /\ queried = <<>>
    /\ target_configs = {}
    /\ serving_configs = {}
    /\ iter_first = <<>>
    /\ rollback_plan = <<>>
    /\ stdout = <<>>
    /\ exception = {}
    /\ exit_code = {}
    /\ version_map = None
    /\ list_result = None
    /\ applied = FALSE

NextParse == GetVersionsByRelease \/ ParseVersionMap

SpecParse == InitParse /\ [][NextParse]_vars

-----------------------------------------------------------------------------
(* The gateway calls on their own: the platform, the paged list calls and the
   requested versions are drawn from bounded sets *)

\* most list calls whose response is paged
MaxPaged == 2
\* most versions requested of get_version_configs
MaxRequested == 3

\* the versions that can be asked for: deployed ones, and one that never was
RequestKeys == Catalog \cup {<<"tools", "v2">>}

\* the platforms the calls are made on: one with a version deleted or none,
\* one whose other versions are on basic scaling, one whose resources name no
\* scaling but manualScaling, one whose manual-scaling versions name
\* automaticScaling too, and one whose manualScaling objects carry no
\* 'instances'
ListedPlatforms ==
    {VersionsResponse(deleted) :
        deleted \in AtMostOne({<<"default", "v2">>, <<"pubapi", "v1">>})}
    \cup {ScaledVersions({}, {"basicScaling"}, {}, TRUE),
          ScaledVersions({}, {}, {}, TRUE),
          ScaledVersions({}, {"automaticScaling"}, {"automaticScaling"}, TRUE),
          ScaledVersions({}, {"automaticScaling"}, {}, FALSE)}

InitList ==
    /\ pc = "list"
    /\ file_content = <<>>
    /\ \E ks \in {{}, TrafficKeys} : services_response = ServicesResponse(ks)
    /\ versions_response \in ListedPlatforms
    /\ paged \in BoundedSubsets(ListCalls, MaxPaged)
    /\ target_versions = {}
    /\ serving_versions = {}
    /\ all_version_configs = {}
    /\ \E ks \in BoundedSubsets(RequestKeys, MaxRequested) :
           requested \in {Keys(ks), Configs(ks)}
    /\ queried = <<>>
    /\ target_configs = {}
    /\ serving_configs = {}
    /\ iter_first = <<>>
    /\ rollback_plan = <<>>
    /\ stdout = <<>>
    /\ exception = {}
    /\ exit_code = {}
    /\ target_release = TargetRelease
    /\ version_map = None
    /\ list_result = None
    /\ applied = FALSE

NextList ==
    \/ CallGetServingVersions
    \/ CallGetVersionConfigs
    \/ CallCheckedList
    \/ CallFetchServices
    \/ CallGetAvailableVersions
    \/ CallGetServiceVersionInstanceCount
    \/ CallIsVersionManualScaling
    \/ CallGetServiceInstanceCount
    \/ CallAdminInit

SpecList == InitList /\ [][NextList]_vars

-----------------------------------------------------------------------------
(* Vocabulary of the properties *)

\* two objects name the same deployed version
SameVersion(a, b) ==
    a.service_id = b.service_id /\ a.version_id = b.version_id

\* some member of S names the version x names
HasVersion(S, x) == \E e \in S : SameVersion(e, x)

\* the identities of the members of S
Identities(S) == {<<e.service_id, e.version_id>> : e \in S}

\* _generate_plan has finished, by returning or by raising
PlanDone == pc \in {"print_plan", "except"}
PlanReturned == pc = "print_plan"
PlanRaised == pc = "except"

TargetsOf(s) == {v \in target_configs : v.service_id = s}
ServingIn(s) == {v \in serving_configs : v.service_id = s}

\* the positions of the plans emitted for service s
PlansFor(s) ==
    {i \in DOMAIN rollback_plan :
        rollback_plan[i].target_version.service_id = s}

\* every managed service has a target version
CoversManaged == \A s \in SERVICES : TargetsOf(s) # {}

\* the targets name a service that is not managed
NamesOtherService == \E v \in target_configs : v.service_id \notin SERVICES

\* the versions next(iter(versions)) can have selected for s
Selected(s) ==
    IF s \in DOMAIN iter_first THEN {iter_first[s]} ELSE TargetsOf(s)

\* exactly one plan is emitted for s, with this target and these serving
\* versions
OnePlan(s, T, S) ==
    /\ Cardinality(PlansFor(s)) = 1
    /\ \A i \in PlansFor(s) :
        /\ rollback_plan[i].target_version = T
        /\ rollback_plan[i].serving_versions = S

-----------------------------------------------------------------------------
(* C1 *)

\* C1 as stated: when the targets cover every managed service, a service s
\* with selected target T and serving set S gets no plan if T is in S and
\* otherwise exactly one plan with target T and serving versions S.
C1_SelectedTargetDecides ==
    (PlanDone /\ CoversManaged) =>
        \A s \in SERVICES : \A T \in Selected(s) :
            IF HasVersion(ServingIn(s), T)
            THEN PlansFor(s) = {}
            ELSE OnePlan(s, T, ServingIn(s))

\* C1 amended: when the targets cover every managed service, the call raises
\* ServiceStateError and emits nothing if the targets also name an unmanaged
\* service; otherwise it returns, and a service s gets no plan if any of its
\* target versions is in S and otherwise exactly one plan, whose target is
\* one of the target versions of s and whose serving versions are exactly S.
C1_AnyTargetDecides ==
    (PlanDone /\ CoversManaged) =>
        IF NamesOtherService
        THEN /\ PlanRaised
             /\ \A e \in exception : e.type = "ServiceStateError"
             /\ rollback_plan = <<>>
        ELSE /\ PlanReturned
             /\ \A s \in SERVICES :
                 IF \E t \in TargetsOf(s) : HasVersion(ServingIn(s), t)
                 THEN PlansFor(s) = {}
                 ELSE /\ iter_first[s] \in TargetsOf(s)
                      /\ OnePlan(s, iter_first[s], ServingIn(s))

\* a run that emits a plan for a service with traffic and none for another
C1_Witness ==
    /\ PlanReturned
    /\ \E s, u \in SERVICES :
        /\ PlansFor(s) # {} /\ ServingIn(s) # {}
        /\ PlansFor(u) = {} /\ Cardinality(TargetsOf(u)) = 2

-----------------------------------------------------------------------------
(* C2 *)

\* C2 as stated: _generate_plan fails if and only if some managed service has
\* no target version; the error then names exactly the managed services
\* without a target version and no plan is returned.
C2_FailsIffServiceMissing ==
    PlanDone =>
        /\ PlanRaised <=> (\E s \in SERVICES : TargetsOf(s) = {})
        /\ PlanRaised =>
            /\ \A e \in exception :
                /\ e.type = "ServiceStateError"
                /\ e.about = {s \in SERVICES : TargetsOf(s) = {}}
            /\ rollback_plan = <<>>

-----------------------------------------------------------------------------
(* C3 *)

\* for every managed service the serving set equals the target set
Converged ==
    \A s \in SERVICES : Identities(ServingIn(s)) = Identities(TargetsOf(s))

\* C3 as stated: for a converged system _generate_plan returns an empty plan
\* sequence.
C3_ConvergedReturnsEmpty ==
    (PlanDone /\ Converged) => (PlanReturned /\ rollback_plan = <<>>)

\* C3 amended: for a converged system _generate_plan emits no plan: it
\* returns an empty sequence when the services of the targets are exactly the
\* managed services, and raises ServiceStateError otherwise; and recomputing
\* the plan after every plan of a returned sequence has been applied returns
\* an empty sequence.
C3_ConvergedEmitsNothing ==
    /\ (PlanDone /\ Converged) =>
        /\ rollback_plan = <<>>
        /\ PlanReturned <=> (CoversManaged /\ ~NamesOtherService)
        /\ PlanRaised => \A e \in exception : e.type = "ServiceStateError"
    /\ (PlanDone /\ applied) => (PlanReturned /\ rollback_plan = <<>>)

\* the plan was computed again for a system that an applied plan has
\* converged, and whose serving snapshot and targets differ in their fields
C3_Witness ==
    /\ PlanReturned
    /\ applied
    /\ Converged
    /\ \E t \in target_configs : \E v \in serving_configs :
        SameVersion(t, v) /\ t # v

-----------------------------------------------------------------------------
(* C4 *)

\* C4: the target version of an emitted plan is never one of its serving
\* versions, whatever their configuration.
C4_NoSelfTargeting ==
    \A i \in DOMAIN rollback_plan :
        ~HasVersion(rollback_plan[i].serving_versions,
                    rollback_plan[i].target_version)

\* a plan is emitted for a service that has two target versions and
\* traffic, while some managed service gets no plan
C4_Witness ==
    /\ PlanReturned
    /\ \E i \in DOMAIN rollback_plan :
        /\ Cardinality(TargetsOf(rollback_plan[i].target_version.service_id)) = 2
        /\ rollback_plan[i].serving_versions # {}
    /\ Len(rollback_plan) < Cardinality(SERVICES)

-----------------------------------------------------------------------------
(* C5 *)

\* C5: every serving version of an emitted plan belongs to the service of the
\* plan's target, the assertion of _RollbackPlan never fails, and no service
\* gets two plans.
C5_PlanLocality ==
    /\ \A i \in DOMAIN rollback_plan :
        \A config \in rollback_plan[i].serving_versions :
            config.service_id = rollback_plan[i].target_version.service_id
    /\ \A e \in exception : e.type # "AssertionError"
    /\ \A i, j \in DOMAIN rollback_plan :
        rollback_plan[i].target_version.service_id
            = rollback_plan[j].target_version.service_id => i = j

\* a plan is emitted for every service, one of them with split traffic
C5_Witness ==
    /\ PlanReturned
    /\ Len(rollback_plan) = Cardinality(SERVICES)
    /\ \E i \in DOMAIN rollback_plan :
        Cardinality(rollback_plan[i].serving_versions) = 2

-----------------------------------------------------------------------------
(* C9 *)

\* C9 as stated: the run exits with status 0 when rollback() completes, and
\* with status 1 on an error, whose message is the last line printed.
C9_ExitStatus ==
    pc = "exited" =>
        IF exception = {}
        THEN exit_code = {0}
        ELSE /\ exit_code = {1}
             /\ stdout # <<>>
             /\ \A ex \in exception :
                 stdout[Len(stdout)] = Line(ex.type, ex.about)

-----------------------------------------------------------------------------
(* C10 *)

\* get_version_configs has returned
ConfigsRead ==
    /\ pc \notin {"rollback", "get_serving_versions", "get_version_configs"}
    /\ \A ex \in exception : ex.type \notin {"PagingError", "ValueError"}

\* a target version or a serving version is not among the configs returned
ConfigOmitted ==
    \E v \in target_versions \cup serving_versions :
        ~HasVersion(all_version_configs, v)

\* C10 as stated: when get_version_configs omits a target version or a
\* serving version, rollback() raises ServiceStateError and produces no plan.
C10_OmittedVersionFails ==
    (ConfigsRead /\ ConfigOmitted /\ pc \notin
        {"ensure_versions_available", "generate_plan"}) =>
        /\ pc \in {"except", "exited"}
        /\ exception # {}
        /\ \A ex \in exception : ex.type = "ServiceStateError"
        /\ rollback_plan = <<>>

-----------------------------------------------------------------------------
(* C11 *)

\* every line of the record file holds a tag, a service id and a version id
WellFormed == \A i \in DOMAIN file_content : Len(file_content[i]) = 3

\* the (service id, version id) pairs of the lines that carry the requested tag
TaggedPairs ==
    {<<file_content[i][2], file_content[i][3]>> :
        i \in {j \in DOMAIN file_content :
                  file_content[j][1] = target_release}}

\* the (service id, version id) pairs a tuple of ServiceVersions holds
PairsOf(service_versions) ==
    UNION {{<<service_versions[i].service, v>> :
               v \in service_versions[i].appengine_versions} :
           i \in DOMAIN service_versions}

\* get_versions_by_release has returned
ReleaseParsed == pc = "get_serving_versions"

\* C11: for a well-formed record file and any tag, get_versions_by_release
\* returns one VersionKey for each (service id, version id) pair of the lines
\* that carry the tag and nothing else, and _parse_version_map returns the
\* same pairs, one ServiceVersions for each service that has any; neither
\* raises.
C11_CatalogParsing ==
    WellFormed =>
        /\ pc # "except"
        /\ ReleaseParsed =>
            /\ Identities(target_versions) = TaggedPairs
            /\ Cardinality(target_versions) = Cardinality(TaggedPairs)
            /\ \A v \in target_versions : v = VersionKey(v.service_id, v.version_id)
        /\ \A r \in version_map :
            /\ r.raised = {}
            /\ PairsOf(r.value) = TaggedPairs
            /\ \A i, j \in DOMAIN r.value :
                r.value[i].service = r.value[j].service => i = j
            /\ \A i \in DOMAIN r.value :
                /\ r.value[i].appengine_versions # {}
                /\ r.value[i].nom_tag = {target_release}

\* both parsers have read a file that repeats a line of the requested tag,
\* names two versions of one service for it, and holds a line of another tag
C11_Witness ==
    /\ WellFormed
    /\ ReleaseParsed
    /\ version_map # None
    /\ \E i, j, k, l \in DOMAIN file_content :
        /\ i < j
        /\ file_content[i] = file_content[j]
        /\ file_content[i][1] = target_release
        /\ file_content[k][1] = target_release
        /\ file_content[k][2] = file_content[i][2]
        /\ file_content[k][3] # file_content[i][3]
        /\ k < i
        /\ file_content[l][1] # target_release
    /\ Cardinality(target_versions) = 2

-----------------------------------------------------------------------------
(* C12 *)

\* the response to a list request the gateway call executed carried a
\* continuation token
MetPagedResponse(r) == \E call \in r.listed : call \in paged

\* C12: a gateway call that meets a paged response raises PagingError and
\* returns nothing, whichever of its list requests met it, and a gateway call
\* that returns has met no paged response; a call that executes no list
\* request of its own returns only if it raised nothing.
C12_CompleteOrPagingError ==
    \A r \in list_result :
        /\ MetPagedResponse(r) =>
            /\ \A ex \in r.raised : ex.type = "PagingError"
            /\ r.raised # {}
            /\ r.returned = {}
        /\ r.returned # {} => (~MetPagedResponse(r) /\ r.raised = {})
        /\ r.raised # {} => r.returned = {}

\* get_version_configs raised PagingError on the list call of one service
\* after it had listed the versions of another
C12_Witness ==
    \E r \in list_result :
        /\ r.call = "get_version_configs"
        /\ \E ex \in r.raised : ex.type = "PagingError"
        /\ \E call, earlier \in r.listed :
            /\ call \in paged
            /\ earlier \notin paged
        /\ r.returned = {}

-----------------------------------------------------------------------------
(* C13 *)

\* the identities of the versions the platform lists
ListedIdentities ==
    UNION {{<<service, version.id>> : version \in versions_response[service]} :
           service \in DOMAIN versions_response}

\* the platform reports manual scaling for the version a config names: its
\* resource carries the manualScaling key
ReportsManualScaling(config) ==
    \E version \in versions_response[config.service_id] :
        version.id = config.version_id /\ version.manualScaling # {}

\* the resource of the version a config names carries manualScaling with an
\* 'instances' field
ReportsManualInstances(config) ==
    \E version \in versions_response[config.service_id] :
        /\ version.id = config.version_id
        /\ \E scaling \in version.manualScaling : scaling.instances # None

\* what get_version_configs returned, when it was called and did return
ReturnedConfigs ==
    UNION {r.returned : r \in {x \in list_result :
                                  x.call = "get_version_configs"}}

\* C13 as stated: the identities of the configs get_version_configs returns
\* are the requested identities that the platform lists, one config for each,
\* and a returned config has manual_scaling_instances if and only if the
\* platform reports manual scaling for its version.
C13_ExactConfigs ==
    \A configs \in ReturnedConfigs :
        /\ Identities(configs) = Identities(requested) \cap ListedIdentities
        /\ Cardinality(configs) = Cardinality(Identities(configs))
        /\ \A config \in configs :
            /\ config.cls = "VersionConfig"
            /\ is_manual_scaling(config) <=> ReportsManualScaling(config)

\* C13, amended: the identities of the configs get_version_configs returns
\* are the requested identities that the platform lists, one config for each,
\* and a returned config has manual_scaling_instances if and only if the
\* resource of its version carries manualScaling with an 'instances' field,
\* whose value it then holds.
C13_ExactConfigsByInstances ==
    \A configs \in ReturnedConfigs :
        /\ Identities(requested) \cap ListedIdentities = Identities(configs)
        /\ Cardinality(Identities(configs)) = Cardinality(configs)
        /\ \A config \in configs :
            /\ config.cls = "VersionConfig"
            /\ is_manual_scaling(config) <=> ReportsManualInstances(config)
            /\ is_manual_scaling(config) =>
                    config.manual_scaling_instances
                        = DeployedInstances(config.version_id)

\* get_version_configs returned the config of a version for which the
\* platform reports manual scaling without 'instances', left out a requested
\* version the platform does not list, and the platform lists a version of a
\* requested service that was not requested
C13_Witness ==
    \E configs \in ReturnedConfigs :
        /\ \E c \in configs :
            ReportsManualScaling(c) /\ ~ReportsManualInstances(c)
        /\ Identities(requested) \ ListedIdentities # {}
        /\ \E k \in ListedIdentities \ Identities(requested) :
            k[1] \in RequestedServices(requested)

-----------------------------------------------------------------------------
(* C14 *)

\* C14 as stated: the plan sequence _generate_plan has returned is the one
\* every run of _generate_plan on the same target and serving sets returns,
\* with the same target version for every service.
C14_DeterministicSelection ==
    PlanReturned =>
        \A r \in PlanOutcomes(target_configs, serving_configs) :
            /\ r.raised = {}
            /\ r.plan = rollback_plan
            /\ \A i \in DOMAIN r.plan : \A j \in DOMAIN rollback_plan :
                r.plan[i].target_version.service_id
                    = rollback_plan[j].target_version.service_id
                => r.plan[i].target_version = rollback_plan[j].target_version

-----------------------------------------------------------------------------
(* C15 *)

\* C15: a target and a serving object, VersionKey or VersionConfig, are equal
\* exactly when they have the same service id and version id, and then hash
\* the same, whatever their manual_scaling_instances; and _generate_plan
\* emits no plan for a service one of whose target versions is serving, also
\* when the target and the serving object differ in their instance count.
C15_IdentityOnly ==
    /\ \A a \in target_configs : \A b \in serving_configs :
        /\ KeyEq(a, b) <=> SameVersion(a, b)
        /\ KeyEq(b, a) <=> SameVersion(a, b)
        /\ SameVersion(a, b) => KeyHash(a) = KeyHash(b)
        /\ SameVersion(a, b) => (PyContains({a}, b) /\ PyContains({b}, a))
    /\ PlanDone =>
        \A s \in SERVICES :
            (\E t \in TargetsOf(s) : HasVersion(ServingIn(s), t))
                => PlansFor(s) = {}

\* _generate_plan returned plans, but none for a service whose target is
\* serving with another instance count than the target's config holds, and
\* none for a service whose target config is serving as a bare key
C15_Witness ==
    /\ PlanReturned
    /\ rollback_plan # <<>>
    /\ \E s \in SERVICES : \E t \in TargetsOf(s) : \E v \in ServingIn(s) :
        /\ SameVersion(t, v)
        /\ t.cls = "VersionConfig" /\ v.cls = "VersionConfig"
        /\ is_manual_scaling(t) /\ is_manual_scaling(v)
        /\ t.manual_scaling_instances # v.manual_scaling_instances
        /\ PlansFor(s) = {}

-----------------------------------------------------------------------------
(* C16 *)

\* the gateway reads of rollback(), in the order of its lines 137-143
GatewayReads ==
    <<"get_versions_by_release", "get_serving_versions", "get_version_configs">>

\* _generate_plan has been called
PlanStarted ==
    \/ pc \in {"print_plan", "main_return"}
    \/ rollback_plan # <<>>
    \/ iter_first # <<>>
    \/ \E i \in DOMAIN stdout : stdout[i].msg = "already_running"
    \/ \E ex \in exception : ex.type \in {"ServiceStateError", "AssertionError"}

\* the snapshot of a run at one of its states: each gateway is read at most
\* once and in order, the configs are asked for exactly the union of the
\* target and the serving versions, and once _generate_plan is about to
\* start or has started all three reads have been made
OneSnapshot ==
    /\ Len(queried) <= Len(GatewayReads)
    /\ queried = SubSeq(GatewayReads, 1, Len(queried))
    /\ Len(queried) = Len(GatewayReads) =>
        /\ Identities(requested)
               = Identities(target_versions) \cup Identities(serving_versions)
        /\ Cardinality(requested) = Cardinality(Identities(requested))
    /\ (pc = "generate_plan" \/ PlanStarted) => queried = GatewayReads

\* a step of the run reads a gateway only at one of the three read lines of
\* rollback(), never once _generate_plan has started, and changes nothing
\* on the platform
ReadOnlyStep ==
    /\ UNCHANGED platform
    /\ queried' # queried =>
        /\ pc \in {"rollback", "get_serving_versions", "get_version_configs"}
        /\ ~PlanStarted
    /\ PlanStarted =>
        UNCHANGED <<target_versions, serving_versions, all_version_configs,
                    target_configs, serving_configs>>

\* C16: in every run the three gateway reads are made once each and all
\* before _generate_plan starts, the config query is for exactly the union of
\* the target and the serving versions, nothing is read once the plan
\* computation has begun, and the platform is never changed.
C16_SingleSnapshot == []OneSnapshot /\ [][ReadOnlyStep]_vars

\* a run has computed and printed a plan from a snapshot in which the
\* targets and the serving versions differ and both went into the config
\* query
C16_Witness ==
    /\ pc = "exited"
    /\ exception = {}
    /\ rollback_plan # <<>>
    /\ queried = GatewayReads
    /\ Identities(target_versions) \ Identities(serving_versions) # {}
    /\ Identities(serving_versions) \ Identities(target_versions) # {}
    /\ Identities(target_versions) \cap Identities(serving_versions) # {}

-----------------------------------------------------------------------------
(* C17 *)

\* both calls of _ensure_versions_available have returned
EnsureDone ==
    pc \notin {"rollback", "get_serving_versions", "get_version_configs",
               "ensure_versions_available"}

\* the fetched configs whose identity is among the requested versions
FetchedFor(requested_versions) ==
    {config \in all_version_configs : HasVersion(requested_versions, config)}

\* C17 as stated: _ensure_versions_available returns exactly the fetched
\* configs whose identity is requested, each a VersionConfig with the fetched
\* manual_scaling_instances and never a bare VersionKey, so that the target
\* version of every emitted plan is one of the fetched configs.
C17_ConfigsKept ==
    EnsureDone =>
        /\ target_configs = FetchedFor(target_versions)
        /\ serving_configs = FetchedFor(serving_versions)
        /\ \A config \in target_configs \cup serving_configs :
            config.cls = "VersionConfig"
        /\ \A i \in DOMAIN rollback_plan :
            /\ rollback_plan[i].target_version.cls = "VersionConfig"
            /\ rollback_plan[i].target_version \in all_version_configs

====
